---- MODULE Spec2Model ----
(***************************************************************************)
(* The sliding puzzle of src/game.py (class puzzle) as a state machine.    *)
(*                                                                         *)
(* The program state is the grid position of every button (tkinter's       *)
(* grid_info of each element of self.buttons), self.vacant,                *)
(* self.monitor_status and self.moves.  The handlers are the button        *)
(* command move(_button), the Start command randomise() and the Reset      *)
(* command reset().  tkinter runs one handler at a time, so randomise is   *)
(* modelled as a begin step, one step per iteration of its loop (during    *)
(* which no other handler can run) and an end step.                        *)
(*                                                                         *)
(* Variables marked "history" are not fields of the program: they record   *)
(* what the handlers did so that the properties can speak about it.        *)
(***************************************************************************)
EXTENDS Integers, Sequences, FiniteSets

VARIABLES
    grid,            \* button i |-> <<row, column>> (button.grid_info())
    vacant,          \* self.vacant
    monitor_status,  \* self.monitor_status
    moves,           \* self.moves
    dialog,          \* the mb.showinfo calls of the running / last handler: <<>> or <<moves>>
    pc,              \* "mainloop" (waiting for an event) or "randomise" (inside its loop)
    todo,            \* iterations the loop of randomise still has to run
    phase,           \* history: the spec's state: Idle, Shuffling, Playing, Solved
    path,            \* history: the swaps performed since construction / the last reset
    entry,           \* history: the program state when randomise was last entered
    last,            \* history: the last step taken, its button, and the phase it began in
    calls,           \* history: the calls of move made by the running / last randomise
    launch           \* how the board came to be: sys.argv[1:], the size used, the caller

vars == <<grid, vacant, monitor_status, moves, dialog, pc, todo, phase, path, entry, last,
          calls, launch>>

-----------------------------------------------------------------------------
(* Sizes.  N is the default board size of the program.  The loop of        *)
(* randomise runs 1000 * N times in the program; the model runs it         *)
(* ShuffleFactor * N times.                                                *)

N == 3

ShuffleFactor == 1

\* Cap on the swaps recorded since the board was last in identity order.
MaxSwaps == 3

\* Cap on self.moves.
MaxMoves == 2

-----------------------------------------------------------------------------
(* Construction.                                                           *)

Buttons == 0 .. (N * N - 2)

Positions == (0 .. (N - 1)) \X (0 .. (N - 1))

\* Mutant: the pairs are enumerated column by column.
Before_ColumnMajor(p, q) == p[2] < q[2] \/ (p[2] = q[2] /\ p[1] < q[1])

\* p comes before q in itertools.product(range(N), range(N)).
Before(p, q) == p[1] < q[1] \/ (p[1] = q[1] /\ p[2] < q[2])

\* list(itertools.product(range(N), range(N))), indexed from 0.
Product == [i \in 0 .. (N * N - 1) |->
              CHOOSE p \in Positions : Cardinality({q \in Positions : Before(q, p)}) = i]

\* The buttons as gridded by __init__: button i at the i-th pair, the last pair left out.
InitGrid == [i \in Buttons |-> Product[i]]

InitVacant == <<N - 1, N - 1>>

-----------------------------------------------------------------------------
(* move(_button)                                                           *)

Abs(x) == IF x < 0 THEN -x ELSE x

\* Mutant: the adjacency test is missing.
Adjacent_Always(v, p) == TRUE

\* Mutant: diagonal neighbours count as adjacent.
Adjacent_Diagonal(v, p) == Abs(v[1] - p[1]) <= 1 /\ Abs(v[2] - p[2]) <= 1 /\ v # p

\* set((abs(vacant_row - button_row), abs(vacant_column - button_column))) == {0, 1}
Adjacent(v, p) == {Abs(v[1] - p[1]), Abs(v[2] - p[2])} = {0, 1}

\* Mutant: the button is gridded with row and column exchanged.
MovedGrid_Transposed(g, v, b) ==
    IF Adjacent(v, g[b]) THEN [g EXCEPT ![b] = <<v[2], v[1]>>] ELSE g

\* _button.grid(row = vacant_row, column = vacant_column), when adjacent
MovedGrid(g, v, b) == IF Adjacent(v, g[b]) THEN [g EXCEPT ![b] = v] ELSE g

\* Mutant: self.vacant gets the button's column and row the wrong way round.
MovedVacant_Transposed(g, v, b) == IF Adjacent(v, g[b]) THEN <<g[b][2], g[b][1]>> ELSE v

\* Mutant: self.vacant is not updated by a move.
MovedVacant_Stale(g, v, b) == v

\* self.vacant = (button_row, button_column), when adjacent
MovedVacant(g, v, b) == IF Adjacent(v, g[b]) THEN g[b] ELSE v

\* Mutant: the counter does not look at self.monitor_status.
CountedMoves_Always(m, mon) == m + 1

\* if self.monitor_status: self.moves += 1
CountedMoves(m, mon) == IF mon THEN m + 1 ELSE m

\* Mutant: row and column exchanged in the completion test.
Completed_Transposed(g) == \A i \in DOMAIN g : i = g[i][2] * N + g[i][1]

\* all(i == row(button) * N + column(button) for i, button in enumerate(self.buttons))
Completed(g) == \A i \in DOMAIN g : i = g[i][1] * N + g[i][2]

\* Mutant: monitoring is not switched off on completion.
MonitorAfter_StaysOn(mon, g) == mon

\* self.monitor_status after the completion test
MonitorAfter(mon, g) == IF mon /\ Completed(g) THEN FALSE ELSE mon

\* Mutant: the completion test and its dialog are outside the monitoring block.
ShowInfo_Unmonitored(mon, g, m) == IF Completed(g) THEN <<m>> ELSE <<>>

\* mb.showinfo(...{self.moves} moves...) under the completion test
ShowInfo(mon, g, m) == IF mon /\ Completed(g) THEN <<m>> ELSE <<>>

move(b) ==
    LET g2 == MovedGrid(grid, vacant, b)
        m2 == CountedMoves(moves, monitor_status)
    IN  /\ (g2 # grid => Len(path) < MaxSwaps)
        /\ (m2 # moves => moves < MaxMoves)
        /\ grid' = g2
        /\ vacant' = MovedVacant(grid, vacant, b)
        /\ moves' = m2
        /\ monitor_status' = MonitorAfter(monitor_status, g2)
        /\ dialog' = ShowInfo(monitor_status, g2, m2)
        /\ path' = IF g2 # grid
                     THEN Append(path, [button |-> b, from |-> grid[b], to |-> g2[b]])
                     ELSE path
        /\ last' = [op |-> IF g2 # grid THEN "moved" ELSE "ignored", button |-> b, from |-> phase]

\* A click on button b: its command runs move(b).
ButtonCommand(b) ==
    /\ pc = "mainloop"
    /\ move(b)
    /\ phase' = IF dialog' # <<>> THEN "Solved" ELSE phase
    /\ UNCHANGED <<pc, todo, entry, calls, launch>>

-----------------------------------------------------------------------------
(* randomise()                                                             *)

\* Mutant: randomise does not switch monitoring off before its loop.
RandomiseMonitorOff_Missing == monitor_status

\* self.monitor_status = False, before the loop
RandomiseMonitorOff == FALSE

\* Mutant: one iteration too many.
RandomiseCount_OneMore == ShuffleFactor * N + 1

\* k = 1000 * self.N of random.choices
RandomiseCount == ShuffleFactor * N

\* self.monitor_status = True, after the loop
RandomiseMonitorOn == TRUE

\* Mutant: randomise does not clear the counter.
RandomiseMoves_Kept(m) == m

\* self.moves = 0, after the loop
RandomiseMoves(m) == 0

RandomiseBegin ==
    /\ pc = "mainloop"
    /\ monitor_status' = RandomiseMonitorOff
    /\ todo' = RandomiseCount
    /\ pc' = "randomise"
    /\ dialog' = <<>>
    /\ phase' = "Shuffling"
    /\ entry' = [grid |-> grid, vacant |-> vacant, monitor_status |-> monitor_status,
                 moves |-> moves, phase |-> phase, at |-> Len(path)]
    /\ last' = [op |-> "start", button |-> -1, from |-> phase]
    /\ calls' = 0
    /\ UNCHANGED <<grid, vacant, moves, path, launch>>

\* One iteration: self.move(button) for a randomly chosen button.
RandomiseStep ==
    /\ pc = "randomise"
    /\ todo > 0
    /\ \E b \in Buttons : move(b)
    /\ todo' = todo - 1
    /\ calls' = calls + 1
    /\ UNCHANGED <<pc, phase, entry, launch>>

RandomiseEnd ==
    /\ pc = "randomise"
    /\ todo = 0
    /\ monitor_status' = RandomiseMonitorOn
    /\ moves' = RandomiseMoves(moves)
    /\ pc' = "mainloop"
    /\ phase' = "Playing"
    /\ last' = [op |-> "randomise", button |-> -1, from |-> phase]
    /\ UNCHANGED <<grid, vacant, dialog, todo, path, entry, calls, launch>>

-----------------------------------------------------------------------------
(* reset()                                                                 *)

\* for i, button in enumerate(self.buttons): button.grid(row = i // N, column = i % N)
ResetGrid(g) == [i \in DOMAIN g |-> <<i \div N, i % N>>]

\* Mutant: reset does not put the vacancy back.
ResetVacant_Kept(v) == v

\* self.vacant = (self.N - 1, self.N - 1)
ResetVacant(v) == <<N - 1, N - 1>>

\* self.monitor_status = False
ResetMonitor(mon) == FALSE

\* self.moves = 0
ResetMoves(m) == 0

Reset ==
    /\ pc = "mainloop"
    /\ grid' = ResetGrid(grid)
    /\ vacant' = ResetVacant(vacant)
    /\ monitor_status' = ResetMonitor(monitor_status)
    /\ moves' = ResetMoves(moves)
    /\ dialog' = <<>>
    /\ phase' = "Idle"
    /\ path' = <<>>
    /\ last' = [op |-> "reset", button |-> -1, from |-> phase]
    /\ UNCHANGED <<pc, todo, entry, calls, launch>>

-----------------------------------------------------------------------------
(* main() and the size the board is constructed with.  sys.argv[1:] is a   *)
(* list of strings, a string a sequence of characters.                     *)

\* Cap on the length of a command-line argument.
MaxArgLen == 3

\* Largest size a caller other than main passes to the constructor.
MaxSize == 4

ArgChars == {"-", "0", "1", "2", "3", "x"}

DigitValue(c) == CASE c = "0" -> 0 [] c = "1" -> 1 [] c = "2" -> 2 [] c = "3" -> 3

IsDigit(c) == c \in {"0", "1", "2", "3"}

\* The digits of a literal, without its sign.
Unsigned(str) == IF str # <<>> /\ str[1] = "-" THEN Tail(str) ELSE str

\* int(str) does not raise ValueError: an optional sign and at least one digit.
IsIntLiteral(str) ==
    /\ Unsigned(str) # <<>>
    /\ \A k \in DOMAIN Unsigned(str) : IsDigit(Unsigned(str)[k])

RECURSIVE DecimalValue(_)
DecimalValue(ds) ==
    IF ds = <<>> THEN 0
    ELSE 10 * DecimalValue(SubSeq(ds, 1, Len(ds) - 1)) + DigitValue(ds[Len(ds)])

\* int(str) for a literal
IntOf(str) ==
    IF str[1] = "-" THEN 0 - DecimalValue(Unsigned(str)) ELSE DecimalValue(Unsigned(str))

\* N = 3 of the except branch of main
DefaultN == 3

\* Mutant: the assertion of main lets 2 through.
AssertOk_OffByOne(n) == n >= 2

\* assert N > 2
AssertOk(n) == n > 2

\* The try / except of main: IndexError, ValueError and AssertionError all give N = 3.
MainN(argv) ==
    IF Len(argv) < 1 THEN DefaultN
    ELSE IF ~IsIntLiteral(argv[1]) THEN DefaultN
    ELSE IF ~AssertOk(IntOf(argv[1])) THEN DefaultN
    ELSE IntOf(argv[1])

\* self.N = N of the constructor, which tests nothing and raises nothing.
PuzzleN(n) == n

\* The strings of at most MaxArgLen characters.
Strings == UNION {[1 .. k -> ArgChars] : k \in 0 .. MaxArgLen}

\* The argument lists: no argument, or one.
Argvs == {<<>>} \cup {<<str>> : str \in Strings}

\* main(): game.puzzle(tk.Tk(), N, image) with the N of the try / except.
Main ==
    /\ launch.stage = "start"
    /\ launch' = [launch EXCEPT !.stage = "board", !.by = "main",
                                !.N = PuzzleN(MainN(launch.argv))]
    /\ UNCHANGED <<grid, vacant, monitor_status, moves, dialog, pc, todo, phase, path,
                   entry, last, calls>>

\* Another caller: game.puzzle(parent, n).
Create ==
    /\ launch.stage = "start"
    /\ \E n \in 0 .. MaxSize :
          launch' = [launch EXCEPT !.stage = "board", !.by = "caller", !.N = PuzzleN(n)]
    /\ UNCHANGED <<grid, vacant, monitor_status, moves, dialog, pc, todo, phase, path,
                   entry, last, calls>>

-----------------------------------------------------------------------------

Init ==
    /\ calls = 0
    /\ launch = [stage |-> "board", by |-> "main", argv |-> <<>>, N |-> PuzzleN(MainN(<<>>))]
    /\ grid = InitGrid
    /\ vacant = InitVacant
    /\ monitor_status = FALSE
    /\ moves = 0
    /\ dialog = <<>>
    /\ pc = "mainloop"
    /\ todo = 0
    /\ phase = "Idle"
    /\ path = <<>>
    /\ entry = [grid |-> InitGrid, vacant |-> InitVacant, monitor_status |-> FALSE,
                moves |-> 0, phase |-> "Idle", at |-> 0]
    /\ last = [op |-> "init", button |-> -1, from |-> "Idle"]

Click == \E b \in Buttons : ButtonCommand(b)

Next ==
    \/ Click
    \/ RandomiseBegin
    \/ RandomiseStep
    \/ RandomiseEnd
    \/ Reset

Spec == Init /\ [][Next]_vars

\* The launch alone: any argument list, then main or another caller constructs.
InitLaunch ==
    /\ launch \in {[stage |-> "start", by |-> "nobody", argv |-> a, N |-> 0] : a \in Argvs}
    /\ calls = 0
    /\ grid = InitGrid
    /\ vacant = InitVacant
    /\ monitor_status = FALSE
    /\ moves = 0
    /\ dialog = <<>>
    /\ pc = "mainloop"
    /\ todo = 0
    /\ phase = "Idle"
    /\ path = <<>>
    /\ entry = [grid |-> InitGrid, vacant |-> InitVacant, monitor_status |-> FALSE,
                moves |-> 0, phase |-> "Idle", at |-> 0]
    /\ last = [op |-> "init", button |-> -1, from |-> "Idle"]

NextLaunch ==
    \/ Main
    \/ Create

SpecLaunch == InitLaunch /\ [][NextLaunch]_vars

-----------------------------------------------------------------------------
(* Properties.                                                             *)

\* The buttons gridded at position p.
Occupants(p) == {i \in DOMAIN grid : grid[i] = p}

\* The positions no button is gridded at.
Empty == {p \in Positions : Occupants(p) = {}}

\* Tile k at (k div N, k mod N) for every k.
Identity == [k \in 0 .. (N * N - 2) |-> <<k \div N, k % N>>]

\* p and q differ by exactly one unit in exactly one coordinate.
Orthogonal(p, q) ==
    \/ (p[1] = q[1] /\ (p[2] = q[2] + 1 \/ q[2] = p[2] + 1))
    \/ (p[2] = q[2] /\ (p[1] = q[1] + 1 \/ q[1] = p[1] + 1))

Diagonal(p, q) == Abs(p[1] - q[1]) = 1 /\ Abs(p[2] - q[2]) = 1

\* C1: in every reachable state (steps inside randomise included) every tile
\* identifier 0..N*N-2 is gridded exactly once, on a cell of the board, no two
\* tiles share a cell, and exactly one of the N*N cells is vacant.
C1_OneVacancyPermutation ==
    /\ DOMAIN grid = 0 .. (N * N - 2)
    /\ \A i \in DOMAIN grid : grid[i] \in Positions
    /\ \A p \in Positions : Cardinality(Occupants(p)) <= 1
    /\ Cardinality(Empty) = 1

\* C1 witness: a board that was shuffled and then played on, away from identity.
C1_Witness ==
    /\ phase = "Playing"
    /\ last.op = "moved"
    /\ Len(path) >= 3
    /\ grid # Identity

\* C2: in every reachable state (steps inside randomise included) self.vacant
\* is the one position no button occupies.
C2_VacantIsTheEmptyCell == Empty = {vacant}

\* C2 witness: inside randomise, right after an iteration that moved a button.
C2_Witness ==
    /\ pc = "randomise"
    /\ todo > 0
    /\ last.op = "moved"
    /\ vacant # InitVacant

\* C3: a call move(b), from a click or from randomise, changes the grid or
\* self.vacant if and only if b's position is orthogonally adjacent to the
\* vacancy; for every other button all cells and self.vacant stay as they were.
C3_MoveIffAdjacent ==
    [][\A b \in Buttons :
          move(b) => ((grid' # grid \/ vacant' # vacant) <=> Orthogonal(grid[b], vacant))]_vars

\* C3 witness: a monitored click on a diagonal neighbour of the vacancy was ignored.
C3_Witness ==
    /\ last.op = "ignored"
    /\ pc = "mainloop"
    /\ moves > 0
    /\ Diagonal(grid[last.button], vacant)

\* C4: while monitoring, a click increments self.moves (by 1) only if it swapped
\* a button with the vacancy; a click on a button that is not adjacent to the
\* vacancy leaves self.moves unchanged.
C4_CountsOnlySwaps ==
    [][\A b \in Buttons :
          (ButtonCommand(b) /\ monitor_status) =>
              /\ (moves' = moves + 1 <=> Orthogonal(grid[b], vacant))
              /\ (~Orthogonal(grid[b], vacant) => moves' = moves)]_vars

\* C5: for every click handled while monitoring (moved or ignored), the solved
\* dialog is shown, carrying self.moves, and monitoring is switched off if and
\* only if the arrangement after the click is the identity arrangement.
C5_SolvedIffIdentity ==
    [][\A b \in Buttons :
          (ButtonCommand(b) /\ monitor_status) =>
              /\ (dialog' # <<>> <=> grid' = Identity)
              /\ (~monitor_status' <=> grid' = Identity)
              /\ (dialog' # <<>> => dialog' = <<moves'>>)]_vars

\* C5 witness: a monitored click moved a button, completed the picture and was announced.
C5_Witness ==
    /\ last.op = "moved"
    /\ last.from = "Playing"
    /\ phase = "Solved"
    /\ dialog # <<>>
    /\ grid = Identity
    /\ ~monitor_status

\* C6: right after randomise returns, whatever state it was called in,
\* monitoring is on and self.moves is 0.
C6_AfterShuffle ==
    last.op = "randomise" => (pc = "mainloop" /\ monitor_status /\ moves = 0)

\* C6 witness: randomise has returned after being called on a monitored board
\* whose counter was above 0.
C6_Witness ==
    /\ last.op = "randomise"
    /\ entry.phase = "Playing"
    /\ entry.monitor_status
    /\ entry.moves > 0

\* A board configuration, and whether it was derived by legal undo steps only.
Config(g, v) == [grid |-> g, vacant |-> v, ok |-> TRUE]

\* Undo one recorded swap: the button goes back from the cell it moved to onto
\* the vacancy it left behind, which must be adjacent.
UndoSwap(c, s) ==
    IF c.ok /\ c.grid[s.button] = s.to /\ c.vacant = s.from /\ Orthogonal(s.from, s.to)
      THEN [grid |-> [c.grid EXCEPT ![s.button] = s.from], vacant |-> s.to, ok |-> TRUE]
      ELSE [c EXCEPT !.ok = FALSE]

RECURSIVE UndoAll(_, _)
\* Undo the swaps of a sequence, the last one first.
UndoAll(c, swaps) ==
    IF swaps = <<>> THEN c
    ELSE UndoAll(UndoSwap(c, swaps[Len(swaps)]), SubSeq(swaps, 1, Len(swaps) - 1))

\* The swaps performed by the running / last randomise.
ShuffleSwaps == SubSeq(path, entry.at + 1, Len(path))

\* C7: every configuration, and so every configuration randomise produces, is
\* connected to identity by adjacent-to-vacancy swaps: undoing all recorded swaps
\* in reverse order gives the identity configuration; and during and right after
\* randomise, undoing the swaps that randomise performed, in reverse order, gives
\* exactly the configuration randomise was called on.
C7_ShuffleIsUndoable ==
    /\ UndoAll(Config(grid, vacant), path) = Config(Identity, <<N - 1, N - 1>>)
    /\ (pc = "randomise" \/ last.op = "randomise") =>
          UndoAll(Config(grid, vacant), ShuffleSwaps) = Config(entry.grid, entry.vacant)

\* C7 witness: a second randomise, called on a board away from identity, has
\* returned after performing at least two swaps.
C7_Witness ==
    /\ last.op = "randomise"
    /\ entry.phase = "Playing"
    /\ entry.grid # Identity
    /\ Len(ShuffleSwaps) >= 2
    /\ grid # entry.grid

\* C8: right after reset, whatever state it was called in, the board is the
\* identity configuration with the vacancy at (N-1, N-1), self.moves is 0 and
\* monitoring is off; running reset once more gives the same state again.
C8_ResetToIdentity ==
    last.op = "reset" =>
        /\ grid = Identity
        /\ vacant = <<N - 1, N - 1>>
        /\ moves = 0
        /\ ~monitor_status
        /\ ResetGrid(grid) = grid
        /\ ResetVacant(vacant) = vacant
        /\ ResetMoves(moves) = moves
        /\ ResetMonitor(monitor_status) = monitor_status

\* C8 witness: reset has run on a board that had been solved.
C8_Witness ==
    /\ last.op = "reset"
    /\ last.from = "Solved"
    /\ phase = "Idle"

\* C9: inside randomise monitoring is off, self.moves keeps the value it had
\* when randomise was called and no solved dialog is shown, also when an
\* intermediate arrangement is the identity arrangement.
C9_ShuffleUnmonitored ==
    pc = "randomise" =>
        /\ ~monitor_status
        /\ moves = entry.moves
        /\ dialog = <<>>

\* C9 witness: randomise was called on a monitored board with the counter above
\* 0, and one of its moves has just produced the identity arrangement.
C9_Witness ==
    /\ pc = "randomise"
    /\ entry.monitor_status
    /\ entry.moves > 0
    /\ last.op = "moved"
    /\ grid = Identity

\* C10 as stated: a click handled in the Solved state changes neither the grid,
\* self.vacant, self.moves nor monitoring, whichever button it is on.
C10_SolvedClickIsNoOp ==
    [][\A b \in Buttons :
          (ButtonCommand(b) /\ phase = "Solved") =>
              UNCHANGED <<grid, vacant, moves, monitor_status>>]_vars

\* C10 amended: a click handled in the Solved state leaves self.moves and
\* monitoring unchanged and shows no dialog; a button adjacent to the vacancy
\* still swaps with it, every other button leaves grid and self.vacant unchanged.
C10_SolvedClickUnmonitored ==
    [][\A b \in Buttons :
          (ButtonCommand(b) /\ phase = "Solved") =>
              /\ moves' = moves
              /\ monitor_status' = monitor_status
              /\ dialog' = <<>>
              /\ phase' = "Solved"
              /\ IF Orthogonal(grid[b], vacant)
                   THEN grid' = [grid EXCEPT ![b] = vacant] /\ vacant' = grid[b]
                   ELSE grid' = grid /\ vacant' = vacant]_vars

\* C10 witness: a click handled in the Solved state moved a button.
C10_Witness ==
    /\ phase = "Solved"
    /\ last.from = "Solved"
    /\ last.op = "moved"
    /\ grid # Identity

\* The board was solved and neither reset nor a completed randomise has run since.
SolvedEra == phase = "Solved" \/ (pc = "randomise" /\ entry.phase = "Solved")

\* C11 as stated: once the solved dialog has been shown, every step other than
\* reset leaves monitoring off and self.moves unchanged and shows no dialog.
C11_SolvedUntilReset ==
    [][(SolvedEra /\ last'.op # "reset") =>
          (~monitor_status' /\ moves' = moves /\ dialog' = <<>>)]_vars

\* C11 amended: once the solved dialog has been shown, every click leaves the
\* board in Solved: monitoring off, self.moves unchanged, no further dialog;
\* only reset and randomise leave Solved.
C11_SolvedUntilResetOrShuffle ==
    [][(phase = "Solved" /\ last'.op \notin {"reset", "start"}) =>
          (phase' = "Solved" /\ ~monitor_status' /\ moves' = moves /\ dialog' = <<>>)]_vars

\* C11 witness: a click was handled in Solved on the completed picture, which
\* stays Solved with the counter of the solution.
C11_Witness ==
    /\ phase = "Solved"
    /\ last.from = "Solved"
    /\ last.op = "ignored"
    /\ grid = Identity
    /\ moves > 0
    /\ ~monitor_status

\* C12: right after construction tile k is at (k div N, k mod N) for every k,
\* the vacancy is at (N-1, N-1), self.moves is 0 and monitoring is off.
C12_ConstructedIdentity ==
    last.op = "init" =>
        /\ grid = Identity
        /\ vacant = <<N - 1, N - 1>>
        /\ moves = 0
        /\ ~monitor_status

\* C12 witness: the constructed board, before any handler has run.
C12_Witness ==
    /\ last.op = "init"
    /\ launch.stage = "board"
    /\ pc = "mainloop"
    /\ path = <<>>
    /\ DOMAIN grid = 0 .. (N * N - 2)

On(g, q) == {i \in DOMAIN g : g[i] = q}

\* C14: a call move(b) with b on a cell p adjacent to the vacancy v puts b on v,
\* leaves p vacant with self.vacant = p, and leaves every other cell with the
\* tile it had; from identity with N = 3 a click on (2,1) gives 0,1,2/3,4,5/6,_,7.
C14_LegalMoveEffect ==
    [][\A b \in Buttons :
          (move(b) /\ Orthogonal(grid[b], vacant)) =>
              /\ On(grid', vacant) = {b}
              /\ On(grid', grid[b]) = {}
              /\ vacant' = grid[b]
              /\ \A q \in Positions \ {grid[b], vacant} : On(grid', q) = On(grid, q)
              /\ (grid = Identity /\ vacant = <<2, 2>> /\ grid[b] = <<2, 1>>) =>
                    (b = 7 /\ grid' = [Identity EXCEPT ![7] = <<2, 2>>] /\ vacant' = <<2, 1>>)]_vars

\* C14 witness: the scenario: from identity, the click on (2,1) has moved tile 7.
C14_Witness ==
    /\ last.op = "moved"
    /\ last.button = 7
    /\ path = <<[button |-> 7, from |-> <<2, 1>>, to |-> <<2, 2>>]>>
    /\ grid = [Identity EXCEPT ![7] = <<2, 2>>]
    /\ vacant = <<2, 1>>

\* The button a click on cell q of arrangement g reaches.
ButtonAt(g, q) == CHOOSE i \in DOMAIN g : g[i] = q

\* C15: in every reachable state with the vacancy at v, for every button on a
\* cell p adjacent to v: move on p followed by move on v (where that button now
\* is) gives back the grid and self.vacant of before the first call.
C15_MoveTwiceRestores ==
    \A b \in Buttons :
        Orthogonal(grid[b], vacant) =>
            LET g1 == MovedGrid(grid, vacant, b)
                v1 == MovedVacant(grid, vacant, b)
                c  == ButtonAt(g1, vacant)
            IN  /\ On(g1, vacant) # {}
                /\ MovedGrid(g1, v1, c) = grid
                /\ MovedVacant(g1, v1, c) = vacant

\* C15 witness: a button was moved and moved straight back, onto the identity arrangement.
C15_Witness ==
    /\ Len(path) = 2
    /\ path[1].button = path[2].button
    /\ path[1].from = path[2].to
    /\ path[1].to = path[2].from
    /\ last.op = "moved"
    /\ grid = Identity
    /\ vacant = <<N - 1, N - 1>>

\* C16: while monitoring is off, a call move(b) swaps b with the vacancy exactly
\* when they are adjacent, and changes neither self.moves nor monitoring and
\* shows no dialog; monitoring is switched on only by the end of randomise.
C16_UnmonitoredMove ==
    [][/\ \A b \in Buttons :
             (move(b) /\ ~monitor_status) =>
                 /\ moves' = moves
                 /\ dialog' = <<>>
                 /\ ~monitor_status'
                 /\ IF Orthogonal(grid[b], vacant)
                      THEN grid' = [grid EXCEPT ![b] = vacant] /\ vacant' = grid[b]
                      ELSE grid' = grid /\ vacant' = vacant
       /\ (~monitor_status /\ monitor_status') => (RandomiseEnd /\ last'.op = "randomise")]_vars

\* C16 witness: a click on the freshly constructed or reset board moved a button
\* and counted and announced nothing.
C16_Witness ==
    /\ phase = "Idle"
    /\ last.op = "moved"
    /\ last.from = "Idle"
    /\ ~monitor_status
    /\ moves = 0
    /\ grid # Identity

\* C17: randomise always terminates after exactly ShuffleFactor * N calls of move
\* (1000 * N in the program): inside its loop the calls made and the iterations
\* left add up to that number, an iteration can always be taken while some are
\* left, whatever was chosen before, and the end can be taken when none is left.
C17_ShuffleTerminates ==
    /\ pc = "randomise" =>
          /\ todo >= 0
          /\ calls + todo = ShuffleFactor * N
          /\ (todo > 0 => ENABLED RandomiseStep)
          /\ (todo = 0 => ENABLED RandomiseEnd)
    /\ last.op = "randomise" => (pc = "mainloop" /\ calls = ShuffleFactor * N)

\* C17 witness: a randomise called on a monitored board has returned, some of
\* its calls having moved a button and some not.
C17_Witness ==
    /\ last.op = "randomise"
    /\ pc = "mainloop"
    /\ entry.phase = "Playing"
    /\ calls = ShuffleFactor * N
    /\ Len(path) - entry.at > 0
    /\ Len(path) - entry.at < calls

\* The index of a cell, row by row.
CellIndex(q) == q[1] * N + q[2]

\* The arrangement as a permutation of the N*N cells: item k (a tile, or the
\* vacancy as item N*N-1) |-> the index of the cell it is on.
Perm == [k \in 0 .. (N * N - 1) |->
            IF k = N * N - 1 THEN CellIndex(vacant) ELSE CellIndex(grid[k])]

Inversions ==
    Cardinality({pr \in (0 .. (N * N - 1)) \X (0 .. (N * N - 1)) :
                    pr[1] < pr[2] /\ Perm[pr[1]] > Perm[pr[2]]})

VacancyDistance == Abs(vacant[1] - (N - 1)) + Abs(vacant[2] - (N - 1))

\* Identity with tiles i and j exchanged.
Exchanged(i, j) == [Identity EXCEPT ![i] = Identity[j], ![j] = Identity[i]]

\* C18: in every reachable state the parity of the permutation of the N*N cells
\* equals the parity of the Manhattan distance of the vacancy from (N-1, N-1);
\* so identity with two tiles exchanged and the vacancy at (N-1, N-1) never occurs.
C18_Parity ==
    /\ Inversions % 2 = VacancyDistance % 2
    /\ ~(vacant = <<N - 1, N - 1>> /\
         \E i, j \in 0 .. (N * N - 2) : i # j /\ grid = Exchanged(i, j))

\* C18 witness: after three swaps the permutation is odd and so is the distance.
C18_Witness ==
    /\ Len(path) = 3
    /\ last.op = "moved"
    /\ Inversions % 2 = 1
    /\ VacancyDistance = 1
    /\ grid # Identity

\* C19: outside randomise, a monitored board whose counter is above 0 is not in
\* identity arrangement; a monitored board in identity arrangement exists only
\* right after a randomise that ended on identity, before any click.
C19_MonitoredIdentityOnlyAfterShuffle ==
    pc = "mainloop" =>
        /\ (monitor_status /\ moves > 0) => grid # Identity
        /\ (monitor_status /\ grid = Identity) => (last.op = "randomise" /\ moves = 0)

\* C19 witness: a monitored click has moved a button and was counted, the
\* picture being incomplete.
C19_Witness ==
    /\ pc = "mainloop"
    /\ monitor_status
    /\ moves > 0
    /\ last.op = "moved"
    /\ phase = "Playing"
    /\ grid # Identity

====
